---- MODULE Spec2Model ----
(***************************************************************************)
(* AI_PortScan_Analyzer: the model registry on disk (MODEL_DIR), the       *)
(* retraining pipeline (scripts/retrain_pipeline.py), the initial training *)
(* script (scripts/train_model.py) and the scoring engine                  *)
(* (scripts/predict_risk.py).                                              *)
(*                                                                         *)
(* Numbers: an F1 score is an integer 0..MaxF1; a probability is an        *)
(* integer in units of 1e-5, so that confidence*100 is an integer number   *)
(* of milli-percent and round(x, 2) is a real rounding to centi-percent.   *)
(***************************************************************************)
EXTENDS Integers, Sequences, FiniteSets, TLC

\* ------------------------------------------------------------------ bounds
MaxClock == 2      \* wall-clock seconds that pass
MaxModels == 2     \* classifiers trained over a behaviour
MaxF1 == 2         \* F1 scores are 0..MaxF1
MaxLedger == 3     \* ledger lines up to which scoring calls are made
NumRuns == 2       \* processes that run execute_safe_retrain
NumLoggers == 2    \* scoring processes that log at the same time

\* ------------------------------------------------------- program constants
MIN_NEW_SAMPLES == 200

Runs == 1..NumRuns
Loggers == 1..NumLoggers
Tiers == {"Low", "Medium", "High", "Critical"}

\* Feature columns, in order.
SCORER_FEATURES ==
  << "open_ports_count", "service_count", "avg_cvss", "uncommon_ports",
     "os_flag", "port_severity_score", "high_risk_port_count",
     "service_entropy", "cvss_variance" >>

TRAIN_FEATURES ==
  << "open_ports_count", "service_count", "avg_cvss", "uncommon_ports", "os_flag",
     "port_severity_score", "high_risk_port_count", "service_entropy", "cvss_variance" >>

feature_cols ==
  << "open_ports_count", "service_count", "avg_cvss", "uncommon_ports", "os_flag" >>

\* ------------------------------------------------------------ file names
\* A file name of MODEL_DIR is the sequence of the character codes that decide
\* its place in sorted(): "label_encoder.pkl" starts with 'l' (108); the two
\* kinds of model file share the prefix "rf_model" ('r' = 114) and go on with
\* '.' (46) in "rf_model.pkl" and with '_' (95) in "rf_model_<timestamp>.pkl".
\* The timestamp %Y%m%d_%H%M%S has a fixed width, so its digits compare as the
\* second it names.
ENCODER_FILE == << 108 >>
LATEST_FILE == << 114, 46 >>
ModelName(timestamp) == << 114, 95, timestamp >>

AllFiles == {ENCODER_FILE, LATEST_FILE} \cup {ModelName(t) : t \in 1..MaxClock}

\* Python's str comparison, on the character codes.
RECURSIVE StrLess(_, _)
StrLess(a, b) ==
  IF a = << >> THEN b # << >>
  ELSE IF b = << >> THEN FALSE
  ELSE IF Head(a) # Head(b) THEN Head(a) < Head(b)
  ELSE StrLess(Tail(a), Tail(b))

\* sorted(model_files)[-1]
SortedLast(files) == CHOOSE f \in files : \A g \in files \ {f} : StrLess(g, f)

\* ---------------------------------------------------------- file contents
Absent == [kind |-> "absent", id |-> 0]
Partial == [kind |-> "partial", id |-> 0]      \* a pickle cut short
NoModel == [kind |-> "none", id |-> 0]         \* Python's None
Classifier(i) == [kind |-> "classifier", id |-> i]
Encoder(i) == [kind |-> "encoder", id |-> i]

\* [f for f in os.listdir(MODEL_DIR) if f.endswith(".pkl")]
ModelFiles(dir) == {f \in DOMAIN dir : dir[f].kind # "absent"}

\* The file both loaders pick, and what it holds.
ActiveFile(dir) == SortedLast(ModelFiles(dir))
ActiveContent(dir) == IF ModelFiles(dir) = {} THEN NoModel ELSE dir[ActiveFile(dir)]

VARIABLES
  modelDir,      \* MODEL_DIR: file name -> content
  trained,       \* what each classifier id was trained as
  clock,         \* datetime.now(), in seconds
  datasetExists, \* data/dataset.csv
  ledgerBase,    \* rows of data/new_scan_logs.csv found at the start
  ledger,        \* rows appended to data/new_scan_logs.csv since
  run,           \* per retraining process: position and locals
  tpc,           \* train_model.py: position
  tmodel,        \* train_model.py: the classifier it is saving
  scorer,        \* predict_risk module of the serving process: globals
  scan,          \* the last analyze_scan call: what it used and returned
  lastPromoted,  \* the challenger the last finished promotion deployed
  ledgerFile,    \* data/new_scan_logs.csv exists
  logger,        \* per scoring process: its position in _log_scan_results
  sec,           \* the last direct call of calculate_host_security_score
  drift          \* the last detect_drift(): what it read and reported

vars == << modelDir, trained, clock, datasetExists, ledgerBase, ledger,
           run, tpc, tmodel, scorer, scan, lastPromoted,
           ledgerFile, logger, sec, drift >>

\* ------------------------------------------------------------- the ledger
\* The file holds a header line and ledgerBase rows found at the start (none
\* when ledgerBase = 0), then the lines of ledger.
LedgerExists == ledgerFile
LedgerLines == (IF ledgerBase > 0 THEN ledgerBase + 1 ELSE 0) + Len(ledger)

\* len(pd.read_csv(SCAN_LOGS_FILE)): the lines after the first. An empty file
\* makes read_csv raise, and the caller's except clause reports 0.
sample_count == IF LedgerLines = 0 THEN 0 ELSE LedgerLines - 1

\* A line of the ledger with more fields than the header has columns, as two
\* rows run together on one line are.
MalformedRow == [kind |-> "malformed", cells |-> << >>]

MalformedLines ==
  Cardinality({ i \in DOMAIN ledger : ledger[i].kind = "malformed" })

\* pd.read_csv(SCAN_LOGS_FILE) with on_bad_lines="skip" or without it: the
\* C parser raises ParserError at a line with too many fields unless told to
\* skip it, and then the frame has the other lines.
read_csv(on_bad_lines_skip) ==
  IF MalformedLines > 0 /\ ~on_bad_lines_skip
    THEN [raised |-> TRUE, rows |-> 0]
    ELSE [raised |-> FALSE, rows |-> sample_count - MalformedLines]


\* ------------------------------------------------------ the knowledge base
\* PORT_KNOWLEDGE.get(port): the risk level on record, if any. The table holds
\* fourteen named ports and the ports 10000..10130 added as "Medium".
get_port_info(port) ==
  IF port \in {20, 21, 23, 445, 1433, 3306, 3389, 5432, 6379, 9200, 27017}
    THEN [found |-> TRUE, risk_level |-> "Critical"]
  ELSE IF port \in {25, 135} THEN [found |-> TRUE, risk_level |-> "High"]
  ELSE IF port = 22 \/ port \in 10000..10130
    THEN [found |-> TRUE, risk_level |-> "Medium"]
  ELSE [found |-> FALSE, risk_level |-> "None"]

\* RISK_RANK.get(level, 0)
RISK_RANK(level) ==
  CASE level = "Low" -> 1
    [] level = "Medium" -> 2
    [] level = "High" -> 3
    [] level = "Critical" -> 4
    [] OTHER -> 0

RECURSIVE PortRiskLoop(_, _)
PortRiskLoop(open_ports, highest_risk) ==
  IF open_ports = << >> THEN highest_risk
  ELSE LET port_info == get_port_info(Head(open_ports))
           next_risk ==
             IF port_info.found
                /\ RISK_RANK(port_info.risk_level) > RISK_RANK(highest_risk)
               THEN port_info.risk_level
               ELSE highest_risk
       IN  PortRiskLoop(Tail(open_ports), next_risk)

calculate_port_based_risk(open_ports) == PortRiskLoop(open_ports, "Low")

\* ------------------------------------------------------------ hybrid score
Min(a, b) == IF a <= b THEN a ELSE b
Max(a, b) == IF a >= b THEN a ELSE b

RECURSIVE SeqMax(_)
SeqMax(s) == IF Len(s) = 1 THEN s[1] ELSE Max(Head(s), SeqMax(Tail(s)))

\* round(x, 2) of a number of milli-percent, as centi-percent (ties to even).
Round2(x) ==
  LET q == x \div 10
      r == x % 10
  IN  IF r > 5 \/ (r = 5 /\ q % 2 = 1) THEN q + 1 ELSE q

\* round(confidence, 3) of a probability in units of 1e-5, as thousandths.
Round3(x) ==
  LET q == x \div 100
      r == x % 100
  IN  IF r > 50 \/ (r = 50 /\ q % 2 = 1) THEN q + 1 ELSE q

\* RISK_RANK.get(port_risk, 0) > RISK_RANK.get(ml_risk, 0)
Escalates(port_risk, ml_risk) == RISK_RANK(port_risk) > RISK_RANK(ml_risk)

\* The escalation bonus without its ceiling.
EscalatedScoreUncapped(risk_score) == risk_score + 20000

\* min(95, risk_score + 20), in milli-percent
EscalatedScore(risk_score) == Min(95000, risk_score + 20000)

\* ------------------------------------------------- feature_engineering.py
COMMON_PORTS == {21, 22, 25, 53, 80, 110, 443}

\* The CVSS estimate of a tier, in hundredths.
cvss_estimate(risk_level) ==
  CASE risk_level = "Critical" -> 850
    [] risk_level = "High" -> 650
    [] risk_level = "Medium" -> 450
    [] risk_level = "Low" -> 250
    [] OTHER -> 300

RISK_LEVEL_WEIGHTS(risk_level) ==
  CASE risk_level = "Critical" -> 4
    [] risk_level = "High" -> 3
    [] risk_level = "Medium" -> 2
    [] OTHER -> 1

RECURSIVE SeqSum(_)
SeqSum(s) == IF s = << >> THEN 0 ELSE Head(s) + SeqSum(Tail(s))

\* round(a / b, digits) of non-negative integers, as an integer number of
\* units of 10^-digits (scale = 10^digits), ties to even.
RoundDiv(a, b, scale) ==
  LET q == (a * scale) \div b
      r == (a * scale) % b
  IN  IF 2 * r > b \/ (2 * r = b /\ q % 2 = 1) THEN q + 1 ELSE q

\* The knowledge-base entry whose service_name is the service, lowercased
\* (the names nmap gives: ssh is SSH, smtp is SMTP, ftp is FTP).
ServiceRisk(service) ==
  CASE service = "ssh" -> "Medium"
    [] service = "smtp" -> "High"
    [] service = "ftp" -> "Critical"
    [] OTHER -> "none"

\* A set as a sequence, in some order.
RECURSIVE SetToSeq(_)
SetToSeq(S) ==
  IF S = {} THEN << >>
  ELSE LET x == CHOOSE x \in S : TRUE IN << x >> \o SetToSeq(S \ {x})

\* calculate_cvss_variance(services), in units of 1e-4
calculate_cvss_variance(services) ==
  LET known == SetToSeq({sv \in services : ServiceRisk(sv) # "none"})
      cvss_scores == [i \in DOMAIN known |-> cvss_estimate(ServiceRisk(known[i])) \div 10]
      n == Len(cvss_scores)
      squares == [i \in DOMAIN cvss_scores |-> cvss_scores[i] * cvss_scores[i]]
  IN  IF n <= 1 THEN 0
      ELSE RoundDiv(n * SeqSum(squares) - SeqSum(cvss_scores) * SeqSum(cvss_scores),
                    n * n, 100)

\* calculate_service_entropy(services), in units of 1e-4: the services are
\* distinct (list(set(...))), so the entropy is log2 of their number.
calculate_service_entropy(services) ==
  LET n == Cardinality(services)
  IN  CASE n <= 1 -> 0
        [] n = 2 -> 10000
        [] n = 3 -> 15850
        [] OTHER -> 20000

\* calculate_features(host). avg_cvss is in hundredths.
calculate_features(host) ==
  LET open_ports == host.open_ports
      info(i) == get_port_info(open_ports[i])
      level(i) == IF info(i).found THEN info(i).risk_level ELSE "none"
      cvss_scores == [i \in DOMAIN open_ports |-> cvss_estimate(level(i))]
      weights == [i \in DOMAIN open_ports |-> RISK_LEVEL_WEIGHTS(level(i))]
  IN  [ open_ports_count |-> Len(open_ports),
        service_count |-> Cardinality(host.services),
        avg_cvss |-> IF open_ports = << >> THEN 0
                     ELSE RoundDiv(SeqSum(cvss_scores), Len(open_ports), 1),
        uncommon_ports |-> IF \E i \in DOMAIN open_ports :
                                open_ports[i] \notin COMMON_PORTS
                             THEN 1 ELSE 0,
        os_flag |-> IF host.os \in {"windows", "unknown"} THEN 1 ELSE 0,
        port_severity_score |-> SeqSum(weights),
        high_risk_port_count |->
          Cardinality({i \in DOMAIN open_ports : level(i) \in {"High", "Critical"}}),
        service_entropy |-> calculate_service_entropy(host.services),
        cvss_variance |-> calculate_cvss_variance(host.services) ]

\* ------------------------------------------ calculate_host_security_score
\* The entries of improvements: the category of the sentence and the number
\* the sentence quotes (0 when it quotes none).
Improvement(category, value) == [category |-> category, value |-> value]

\* The sub-sequence of the entries whose condition holds.
RECURSIVE Appended(_)
Appended(candidates) ==
  IF candidates = << >> THEN << >>
  ELSE (IF Head(candidates).when THEN << Head(candidates).entry >> ELSE << >>)
       \o Appended(Tail(candidates))

\* A penalty that keeps more points with two critical ports than with one.
critical_score_uneven(critical_ports_count) ==
  IF critical_ports_count = 0 THEN 30
  ELSE IF critical_ports_count = 1 THEN 15
  ELSE IF critical_ports_count = 2 THEN 18
  ELSE 0

\* The penalty for critical ports: 30 points kept with none, 15 with one,
\* 8 with two, none beyond.
critical_score(critical_ports_count) ==
  IF critical_ports_count = 0 THEN 30
  ELSE IF critical_ports_count = 1 THEN 15
  ELSE IF critical_ports_count = 2 THEN 8
  ELSE 0

\* Tiers with the boundary scores on the worse side.
risk_tier_strict(security_score) ==
  IF security_score > 80 THEN "Low"
  ELSE IF security_score > 60 THEN "Medium"
  ELSE IF security_score > 40 THEN "High"
  ELSE "Critical"

\* The tier of a security score.
risk_tier(security_score) ==
  IF security_score >= 80 THEN "Low"
  ELSE IF security_score >= 60 THEN "Medium"
  ELSE IF security_score >= 40 THEN "High"
  ELSE "Critical"

\* Recommendations without the entry for high-risk ports.
improvements_no_firewall(feature_dict, critical_ports_count, high_ports_count) ==
  LET appended == Appended(<<
        [when |-> critical_ports_count > 0,
         entry |-> Improvement("critical_ports", critical_ports_count)],
        [when |-> feature_dict.open_ports_count > 5,
         entry |-> Improvement("open_ports", feature_dict.open_ports_count)],
        [when |-> feature_dict.avg_cvss > 700,
         entry |-> Improvement("avg_cvss", feature_dict.avg_cvss)],
        [when |-> feature_dict.os_flag = 1, entry |-> Improvement("windows", 0)],
        [when |-> feature_dict.service_count > 6,
         entry |-> Improvement("service_count", 0)] >>)
  IN  IF appended = << >> THEN << Improvement("monitoring", 0) >> ELSE appended

\* The improvement recommendations, appended in the order of the tests, and
\* the monitoring entry when none was appended.
improvements(feature_dict, critical_ports_count, high_ports_count) ==
  LET appended == Appended(<<
        [when |-> critical_ports_count > 0,
         entry |-> Improvement("critical_ports", critical_ports_count)],
        [when |-> feature_dict.open_ports_count > 5,
         entry |-> Improvement("open_ports", feature_dict.open_ports_count)],
        [when |-> feature_dict.avg_cvss > 700,
         entry |-> Improvement("avg_cvss", feature_dict.avg_cvss)],
        [when |-> feature_dict.os_flag = 1, entry |-> Improvement("windows", 0)],
        [when |-> feature_dict.service_count > 6,
         entry |-> Improvement("service_count", 0)],
        [when |-> high_ports_count > 0,
         entry |-> Improvement("high_ports", high_ports_count)] >>)
  IN  IF appended = << >> THEN << Improvement("monitoring", 0) >> ELSE appended

\* calculate_host_security_score(feature_dict, critical_ports_count,
\* high_ports_count, final_risk_level); final_risk_level is not read.
\* avg_cvss is in hundredths.
calculate_host_security_score(feature_dict, critical_ports_count, high_ports_count) ==
  LET open_ports == feature_dict.open_ports_count
      ports_score == IF open_ports <= 1 THEN 20
                     ELSE IF open_ports <= 3 THEN 15
                     ELSE IF open_ports <= 5 THEN 10
                     ELSE IF open_ports <= 8 THEN 5
                     ELSE 0
      avg_cvss == feature_dict.avg_cvss
      cvss_score == IF avg_cvss <= 300 THEN 25
                    ELSE IF avg_cvss <= 500 THEN 18
                    ELSE IF avg_cvss <= 700 THEN 12
                    ELSE IF avg_cvss <= 800 THEN 6
                    ELSE 0
      os_flag == feature_dict.os_flag
      os_score == IF os_flag = 0 THEN 15 ELSE 8
      service_count == feature_dict.service_count
      uncommon_ports == feature_dict.uncommon_ports
      service_score == IF service_count <= 2 THEN 10
                       ELSE IF service_count <= 4 THEN 8
                       ELSE IF service_count <= 6 THEN 5
                       ELSE IF uncommon_ports = 0 THEN 2 ELSE 0
      raw_score == 100 - (20 - ports_score) - (25 - cvss_score)
                       - (30 - critical_score(critical_ports_count))
                       - (15 - os_score) - (10 - service_score)
      security_score == Max(0, Min(100, raw_score))
  IN  [ security_score |-> security_score,
        risk_tier |-> risk_tier(security_score),
        ports_score |-> ports_score,
        cvss_score |-> cvss_score,
        critical_score |-> critical_score(critical_ports_count),
        os_score |-> os_score,
        service_score |-> service_score,
        improvements |->
          improvements(feature_dict, critical_ports_count, high_ports_count) ]

RISK_PRIORITY(risk_level) ==
  CASE risk_level = "Critical" -> 100
    [] risk_level = "High" -> 75
    [] risk_level = "Medium" -> 50
    [] risk_level = "Low" -> 25
    [] OTHER -> 0

\* analyze_scan: the priorities of the open ports the knowledge base knows.
port_risk_scores(open_ports) ==
  LET known == SelectSeq([i \in DOMAIN open_ports |-> get_port_info(open_ports[i])],
                         LAMBDA port_info : port_info.found)
  IN  [i \in DOMAIN known |-> RISK_PRIORITY(known[i].risk_level)]

critical_ports_count(open_ports) ==
  Len(SelectSeq(port_risk_scores(open_ports), LAMBDA sc : sc >= 100))

high_ports_count(open_ports) ==
  Len(SelectSeq(port_risk_scores(open_ports), LAMBDA sc : 75 <= sc /\ sc < 100))

\* One pass of the loop of analyze_scan over a host: its dashboard entry, with
\* the report's hybrid_logic fields.
HostVerdict(host, ml_risk) ==
  LET confidence == SeqMax(host.prob)
      risk_score == confidence
      port_risk == calculate_port_based_risk(host.open_ports)
      escalate == Escalates(port_risk, ml_risk)
      security_score_data ==
        calculate_host_security_score(calculate_features(host),
                                      critical_ports_count(host.open_ports),
                                      high_ports_count(host.open_ports))
  IN  [ final_risk |-> IF escalate THEN port_risk ELSE ml_risk,
        security_score |-> security_score_data.security_score,
        risk_tier |-> security_score_data.risk_tier,
        recommendations |-> security_score_data.improvements,
        risk_score |-> Round2(IF escalate THEN EscalatedScore(risk_score)
                                          ELSE risk_score),
        confidence |-> Round2(confidence),
        ml_risk |-> ml_risk,
        port_intelligence_risk |-> port_risk,
        escalation_applied |-> escalate ]

\* _log_scan_results: the header it writes when the file did not exist ...
LOG_COLUMNS ==
  << "timestamp", "open_ports_count", "service_count", "avg_cvss",
     "uncommon_ports", "os_flag", "port_severity_score",
     "high_risk_port_count", "service_entropy", "cvss_variance",
     "predicted_label", "risk_score", "confidence" >>

HeaderRow == [kind |-> "header", cells |-> LOG_COLUMNS]

\* A row with service_count and avg_cvss in each other's column.
LedgerRowSwapped(now, feature_row_dict, prediction, probability) ==
  [ kind |-> "row",
    cells |-> << now,
                 feature_row_dict.open_ports_count,
                 feature_row_dict.avg_cvss,
                 feature_row_dict.service_count,
                 feature_row_dict.uncommon_ports,
                 feature_row_dict.os_flag,
                 feature_row_dict.port_severity_score,
                 feature_row_dict.high_risk_port_count,
                 feature_row_dict.service_entropy,
                 feature_row_dict.cvss_variance,
                 prediction,
                 Round2(SeqMax(probability)),
                 Round3(SeqMax(probability)) >> ]

\* ... and the row it writes for (feature_row_dict, prediction, probability)
\* at datetime.now().
LedgerRow(now, feature_row_dict, prediction, probability) ==
  LET confidence == SeqMax(probability)
      risk_score == confidence
  IN  [ kind |-> "row",
        cells |-> << now,
                     feature_row_dict.open_ports_count,
                     feature_row_dict.service_count,
                     feature_row_dict.avg_cvss,
                     feature_row_dict.uncommon_ports,
                     feature_row_dict.os_flag,
                     feature_row_dict.port_severity_score,
                     feature_row_dict.high_risk_port_count,
                     feature_row_dict.service_entropy,
                     feature_row_dict.cvss_variance,
                     prediction,
                     Round2(risk_score),
                     Round3(confidence) >> ]

\* A file opened in mode "w": what is written replaces the contents.
WriteToFile(contents, lines) == lines

\* open(LOG_FILE, "a"): what is written goes after the contents.
AppendToFile(contents, lines) == contents \o lines

\* _log_scan_results: what a call that saw file_exists writes when its file
\* is closed (the header and the row leave the buffer together).
LogLines(file_exists, row) ==
  (IF file_exists THEN << >> ELSE << HeaderRow >>) \o << row >>

\* The lines of the calls for rows, one after the other, on a file that
\* existed or not before the first.
RECURSIVE LogAll(_, _)
LogAll(file_exists, rows) ==
  IF rows = << >> THEN << >>
  ELSE LogLines(file_exists, Head(rows)) \o LogAll(TRUE, Tail(rows))


\* ------------------------------------------------------------------- Init
\* The ledger grows outside the engine as well: the run starts with no ledger
\* or with the retraining minimum.
InitLedgerSizes == {0, MIN_NEW_SAMPLES}

\* No frame has been read.
NoCorpus == [frames |-> 0, rows |-> 0, y |-> "none", labelled |-> 0]

IdleRun ==
  [ pc |-> "idle", current_model |-> NoModel, model_file |-> << >>,
    old_f1 |-> -1, new_f1 |-> -1, new_model |-> 0, improvement |-> FALSE,
    model_path |-> << >>,
    active_before |-> NoModel,
    corpus |-> NoCorpus,
    trigger |-> "none" ]

DownScorer ==
  [ pc |-> "down", model |-> NoModel, MODEL_FILE |-> << >>,
    label_encoder |-> NoModel ]

\* The views analyze_scan returns with an error: dashboard, report and admin
\* are None. A scan has at least one host, so the empty sequence stands for
\* None.
NoViews(error) ==
  [ error |-> error, dashboard |-> << >>, report |-> << >>,
    admin |-> [none |-> TRUE, new_samples_processed |-> 0] ]

NoScan ==
  [ status |-> "none", model |-> NoModel, label_encoder |-> NoModel,
    promoted |-> NoModel, hosts |-> << >>, dashboard |-> << >>,
    appended |-> 0, returned |-> NoViews("None") ]

\* No call of _log_scan_results under way.
IdleLogger == [pc |-> "idle", file_exists |-> FALSE, row |-> HeaderRow]

\* detect_drift() has not run.
NoDrift == [status |-> "none", new_samples |-> 0,
            drift_summary |-> << >>, drift_detected |-> FALSE]

InitWith(sizes, lines) ==
  /\ modelDir = [f \in AllFiles |-> Absent]
  /\ trained = << >>
  /\ clock = 1
  /\ datasetExists = FALSE
  /\ ledgerBase \in sizes
  /\ ledger \in lines
  /\ run = [r \in Runs |-> IdleRun]
  /\ tpc = "idle"
  /\ tmodel = 0
  /\ scorer = DownScorer
  /\ scan = NoScan
  /\ lastPromoted = NoModel
  /\ ledgerFile = (ledgerBase > 0)
  /\ logger = [p \in Loggers |-> IdleLogger]
  /\ sec = << >>
  /\ drift = NoDrift

Init == InitWith(InitLedgerSizes, {<< >>})

\* The ledgers a retraining run can find: none, and ones below, just below
\* and at the minimum.
RetrainLedgerSizes == {0, 150, MIN_NEW_SAMPLES - 1, MIN_NEW_SAMPLES}

RetrainInit == InitWith(RetrainLedgerSizes, {<< >>})

\* ------------------------------------------------------------ environment
\* A second passes on the wall clock.
Tick ==
  /\ clock < MaxClock
  /\ clock' = clock + 1
  /\ UNCHANGED << modelDir, trained, datasetExists, ledgerBase, ledger, run,
                  tpc, tmodel, scorer, scan, lastPromoted,
                  ledgerFile, logger, sec, drift >>

\* data/generate_dataset.py writes data/dataset.csv (label column risk_label).
GenerateDataset ==
  /\ ~datasetExists
  /\ datasetExists' = TRUE
  /\ UNCHANGED << modelDir, trained, clock, ledgerBase, ledger, run, tpc,
                  tmodel, scorer, scan, lastPromoted,
                  ledgerFile, logger, sec, drift >>

\* ----------------------------------------------------------- train_model.py
\* The script fits on the nine columns of dataset.csv, keeps the better of
\* RandomForest (string labels) and XGBoost (encoded labels), calibrates it and
\* dumps it to model/rf_model.pkl, then dumps the label encoder. joblib.dump
\* opens the file for writing and then writes the pickle.
TrainModelDumpModelBegin ==
  /\ tpc = "idle"
  /\ datasetExists
  /\ Len(trained) < MaxModels
  /\ \E xgboost_best \in BOOLEAN :
       trained' = Append(trained, [ src |-> "train_model",
                                    features |-> TRAIN_FEATURES,
                                    encoded |-> xgboost_best ])
  /\ tmodel' = Len(trained) + 1
  /\ modelDir' = [modelDir EXCEPT ![LATEST_FILE] = Partial]
  /\ tpc' = "dumping_model"
  /\ UNCHANGED << clock, datasetExists, ledgerBase, ledger, run,
                  scorer, scan, lastPromoted,
                  ledgerFile, logger, sec, drift >>

TrainModelDumpModelEnd ==
  /\ tpc = "dumping_model"
  /\ modelDir' = [modelDir EXCEPT ![LATEST_FILE] = Classifier(tmodel)]
  /\ tpc' = "dumped_model"
  /\ UNCHANGED << trained, clock, datasetExists, ledgerBase, ledger, run,
                  tmodel, scorer, scan, lastPromoted,
                  ledgerFile, logger, sec, drift >>

TrainModelDumpEncoderBegin ==
  /\ tpc = "dumped_model"
  /\ modelDir' = [modelDir EXCEPT ![ENCODER_FILE] = Partial]
  /\ tpc' = "dumping_encoder"
  /\ UNCHANGED << trained, clock, datasetExists, ledgerBase, ledger, run,
                  tmodel, scorer, scan, lastPromoted,
                  ledgerFile, logger, sec, drift >>

TrainModelDumpEncoderEnd ==
  /\ tpc = "dumping_encoder"
  /\ modelDir' = [modelDir EXCEPT ![ENCODER_FILE] = Encoder(tmodel)]
  /\ tpc' = "idle"
  /\ tmodel' = 0
  /\ UNCHANGED << trained, clock, datasetExists, ledgerBase, ledger, run,
                  scorer, scan, lastPromoted,
                  ledgerFile, logger, sec, drift >>


\* ------------------------------------------------------ retrain_pipeline.py
Terminal == {"not_eligible", "aborted", "promoted", "rejected", "raised", "crashed"}

\* An eligibility that asks only for the file.
check_retraining_eligibility_any == LedgerExists

\* check_retraining_eligibility(): the file is read without on_bad_lines,
\* and the except clause answers (False, 0) to whatever read_csv raises.
check_retraining_eligibility ==
  /\ LedgerExists
  /\ ~read_csv(FALSE).raised
  /\ read_csv(FALSE).rows >= MIN_NEW_SAMPLES

\* model.predict(X) on X of n_columns columns: scikit-learn refuses an X whose
\* column count differs from the one the model was fitted on, and a
\* LabelEncoder has no predict.
CanPredict(model, n_columns) ==
  /\ model.kind = "classifier"
  /\ Len(trained[model.id].features) = n_columns

\* generate_dataset.py: the rows and the header of dataset.csv.
NUM_ROWS == 1200

DATASET_COLUMNS == << "ip" >> \o TRAIN_FEATURES \o << "risk_label" >>

Columns(header) == { header[i] : i \in DOMAIN header }

\* new_df.rename(columns={'predicted_label': 'label'}), done if 'label' is
\* among the columns of the ledger's frame.
rename_predicted_label(columns) ==
  IF "label" \in columns
    THEN (columns \ {"predicted_label"}) \cup {"label"}
    ELSE columns

\* prepare_training_data(): combined_df and the column y is taken from. The
\* frames are concatenated by column name, and a frame without the column of
\* y has NaN there: 'labelled' counts the rows that have a value.
combined_df ==
  LET hist_columns == Columns(DATASET_COLUMNS)
      new_columns == rename_predicted_label(Columns(LOG_COLUMNS))
      hist_rows == IF datasetExists THEN NUM_ROWS ELSE 0
      new_rows == IF LedgerExists THEN read_csv(FALSE).rows ELSE 0
      columns == (IF datasetExists THEN hist_columns ELSE {})
                   \cup (IF LedgerExists THEN new_columns ELSE {})
      y == IF "label" \in columns THEN "label"
           ELSE IF "predicted_label" \in columns THEN "predicted_label"
           ELSE "none"
  IN  [ frames |-> (IF datasetExists THEN 1 ELSE 0)
                     + (IF LedgerExists THEN 1 ELSE 0),
        rows |-> hist_rows + new_rows,
        y |-> y,
        labelled |-> (IF y \in hist_columns THEN hist_rows ELSE 0)
                       + (IF y \in new_columns THEN new_rows ELSE 0) ]

\* prepare_training_data(): "none" for the (None, None, None, None) return,
\* "raise" for an exception of read_csv or of train_test_split, "ok" for a
\* split. stratify=y raises when y has NaN, and when a class is too rare.
prepare_training_data(stratifiable) ==
  IF LedgerExists /\ read_csv(FALSE).raised THEN "raise"
  ELSE IF combined_df.frames = 0 THEN "none"
  ELSE IF combined_df.y = "none" THEN "none"
  ELSE IF combined_df.labelled < combined_df.rows THEN "raise"
  ELSE IF stratifiable THEN "ok" ELSE "raise"

\* The comparison with a tie counted as an improvement.
compare_model_performance_tie(old_f1, new_f1) ==
  IF old_f1 = -1 THEN TRUE ELSE new_f1 >= old_f1

\* compare_model_performance(old_metrics, new_metrics), old_f1 = -1 for None
compare_model_performance(old_f1, new_f1) ==
  IF old_f1 = -1 THEN TRUE ELSE new_f1 > old_f1

\* execute_safe_retrain, step 1
Start(r) ==
  /\ run[r].pc = "idle"
  /\ run' = [run EXCEPT ![r] =
       [ IdleRun EXCEPT
           !.pc = IF check_retraining_eligibility THEN "load" ELSE "not_eligible",
           !.active_before = ActiveContent(modelDir) ]]
  /\ UNCHANGED << modelDir, trained, clock, datasetExists, ledgerBase, ledger,
                  tpc, tmodel, scorer, scan, lastPromoted,
                  ledgerFile, logger, sec, drift >>

\* load_current_model(): joblib.load of a pickle cut short raises.
LoadCurrentModel(r) ==
  /\ run[r].pc = "load"
  /\ LET model_files == ModelFiles(modelDir)
         latest_model == SortedLast(model_files)
     IN  run' = [run EXCEPT ![r] =
           IF model_files = {} THEN [@ EXCEPT !.pc = "prepare"]
           ELSE IF modelDir[latest_model].kind = "partial"
             THEN [@ EXCEPT !.pc = "raised"]
           ELSE [@ EXCEPT !.pc = "prepare",
                          !.current_model = modelDir[latest_model],
                          !.model_file = latest_model]]
  /\ UNCHANGED << modelDir, trained, clock, datasetExists, ledgerBase, ledger,
                  tpc, tmodel, scorer, scan, lastPromoted,
                  ledgerFile, logger, sec, drift >>

\* Steps 3 to 5: prepare the data, evaluate the current model on X_test (the
\* five feature_cols), train the new model, evaluate it, compare.
PrepareTrainEvaluate(r) ==
  /\ run[r].pc = "prepare"
  /\ \E stratifiable \in BOOLEAN, f1_old \in 0..MaxF1, f1_new \in 0..MaxF1 :
       LET data == prepare_training_data(stratifiable)
           current_model == run[r].current_model
           evaluable == current_model = NoModel
                        \/ CanPredict(current_model, Len(feature_cols))
           old_f1 == IF current_model = NoModel THEN -1 ELSE f1_old
           corpus == IF LedgerExists /\ read_csv(FALSE).raised
                       THEN NoCorpus ELSE combined_df
       IN  IF data = "none"
             THEN /\ run' = [run EXCEPT ![r].pc = "aborted",
                                        ![r].corpus = corpus]
                  /\ UNCHANGED trained
           ELSE IF data = "raise" \/ ~evaluable
             THEN /\ run' = [run EXCEPT ![r].pc = "raised",
                                        ![r].corpus = corpus]
                  /\ UNCHANGED trained
           ELSE /\ Len(trained) < MaxModels
                /\ trained' = Append(trained, [ src |-> "retrain",
                                                features |-> feature_cols,
                                                encoded |-> FALSE ])
                /\ run' = [run EXCEPT ![r] =
                     [@ EXCEPT !.old_f1 = old_f1,
                               !.new_f1 = f1_new,
                               !.new_model = Len(trained) + 1,
                               !.improvement =
                                 compare_model_performance(old_f1, f1_new),
                               !.corpus = corpus,
                               !.pc = "save"]]
  /\ UNCHANGED << modelDir, clock, datasetExists, ledgerBase, ledger,
                  tpc, tmodel, scorer, scan, lastPromoted,
                  ledgerFile, logger, sec, drift >>

\* Step 6, either branch: save_versioned_model(new_model). joblib.dump opens
\* rf_model_<now>.pkl for writing (an existing file of that name is truncated) ...
SaveVersionedBegin(r) ==
  /\ run[r].pc = "save"
  /\ modelDir' = [modelDir EXCEPT ![ModelName(clock)] = Partial]
  /\ run' = [run EXCEPT ![r] =
       [@ EXCEPT !.model_path = ModelName(clock), !.pc = "saving"]]
  /\ UNCHANGED << trained, clock, datasetExists, ledgerBase, ledger,
                  tpc, tmodel, scorer, scan, lastPromoted,
                  ledgerFile, logger, sec, drift >>

\* ... and writes the pickle. On the reject branch the run then returns False.
SaveVersionedEnd(r) ==
  /\ run[r].pc = "saving"
  /\ modelDir' = [modelDir EXCEPT ![run[r].model_path] = Classifier(run[r].new_model)]
  /\ run' = [run EXCEPT ![r].pc =
       IF run[r].improvement THEN "dump" ELSE "rejected"]
  /\ UNCHANGED << trained, clock, datasetExists, ledgerBase, ledger,
                  tpc, tmodel, scorer, scan, lastPromoted,
                  ledgerFile, logger, sec, drift >>

\* joblib.dump(new_model, latest_path): rf_model.pkl is opened for writing ...
DumpLatestBegin(r) ==
  /\ run[r].pc = "dump"
  /\ modelDir' = [modelDir EXCEPT ![LATEST_FILE] = Partial]
  /\ run' = [run EXCEPT ![r].pc = "dumping"]
  /\ UNCHANGED << trained, clock, datasetExists, ledgerBase, ledger,
                  tpc, tmodel, scorer, scan, lastPromoted,
                  ledgerFile, logger, sec, drift >>

\* ... and written. The MODEL REPLACEMENT log line then formats
\* current_metrics.get(...), which raises when current_metrics is None;
\* otherwise the run returns True.
DumpLatestEnd(r) ==
  /\ run[r].pc = "dumping"
  /\ modelDir' = [modelDir EXCEPT ![LATEST_FILE] = Classifier(run[r].new_model)]
  /\ lastPromoted' = Classifier(run[r].new_model)
  /\ run' = [run EXCEPT ![r].pc =
       IF run[r].old_f1 = -1 THEN "raised" ELSE "promoted"]
  /\ UNCHANGED << trained, clock, datasetExists, ledgerBase, ledger,
                  tpc, tmodel, scorer, scan,
                  ledgerFile, logger, sec, drift >>

\* The process dies between two steps.
Crash(r) ==
  /\ run[r].pc \notin Terminal \cup {"idle"}
  /\ run' = [run EXCEPT ![r].pc = "crashed"]
  /\ UNCHANGED << modelDir, trained, clock, datasetExists, ledgerBase, ledger,
                  tpc, tmodel, scorer, scan, lastPromoted,
                  ledgerFile, logger, sec, drift >>

\* The script is started again.
Restart(r) ==
  /\ run[r].pc \in Terminal
  /\ run' = [run EXCEPT ![r] = IdleRun]
  /\ UNCHANGED << modelDir, trained, clock, datasetExists, ledgerBase, ledger,
                  tpc, tmodel, scorer, scan, lastPromoted,
                  ledgerFile, logger, sec, drift >>


\* ----------------------------------------------------------- predict_risk.py
\* Import of the module, _load_model(): the model of the last file name ...
\* An empty (or missing) MODEL_DIR raises FileNotFoundError, which the import
\* catches: model and label_encoder stay None. Any other exception of
\* joblib.load ends the import.
ScorerLoadModel ==
  /\ scorer.pc = "down"
  /\ LET model_files == ModelFiles(modelDir)
         latest_model == SortedLast(model_files)
     IN  scorer' =
           IF model_files = {} THEN [DownScorer EXCEPT !.pc = "ready"]
           ELSE IF modelDir[latest_model].kind = "partial"
             THEN [DownScorer EXCEPT !.pc = "failed", !.MODEL_FILE = latest_model]
           ELSE [DownScorer EXCEPT !.pc = "loading",
                                   !.MODEL_FILE = latest_model,
                                   !.model = modelDir[latest_model]]
  /\ UNCHANGED << modelDir, trained, clock, datasetExists, ledgerBase, ledger,
                  run, tpc, tmodel, scan, lastPromoted,
                  ledgerFile, logger, sec, drift >>

\* ... and then label_encoder.pkl, if it exists.
ScorerLoadEncoder ==
  /\ scorer.pc = "loading"
  /\ scorer' =
       IF modelDir[ENCODER_FILE].kind = "absent" THEN [scorer EXCEPT !.pc = "ready"]
       ELSE IF modelDir[ENCODER_FILE].kind = "partial"
         THEN [scorer EXCEPT !.pc = "failed"]
       ELSE [scorer EXCEPT !.pc = "ready", !.label_encoder = modelDir[ENCODER_FILE]]
  /\ UNCHANGED << modelDir, trained, clock, datasetExists, ledgerBase, ledger,
                  run, tpc, tmodel, scan, lastPromoted,
                  ledgerFile, logger, sec, drift >>

\* The serving process ends; the next one imports the module again.
ScorerExit ==
  /\ scorer.pc \in {"ready", "failed"}
  /\ scorer' = DownScorer
  /\ UNCHANGED << modelDir, trained, clock, datasetExists, ledgerBase, ledger,
                  run, tpc, tmodel, scan, lastPromoted,
                  ledgerFile, logger, sec, drift >>

\* model.classes_: the labels of the training set (those generate_dataset.py
\* assigns), sorted.
Classes == << "High", "Low", "Medium" >>

\* np.argmax: the first position of the greatest probability.
ArgMax(prob) ==
  CHOOSE i \in DOMAIN prob :
    /\ \A j \in DOMAIN prob : prob[j] <= prob[i]
    /\ \A j \in 1..(i - 1) : prob[j] < prob[i]

\* The tier model.predict gives the row whose predict_proba is prob.
predict(prob) == Classes[ArgMax(prob)]

\* The label an encoded (XGBoost) model predicts is the index of the tier in
\* the encoder's sorted classes.
ClassIndex(tier) ==
  CASE tier = "High" -> "0"
    [] tier = "Low" -> "1"
    [] tier = "Medium" -> "2"

\* A return that keeps the views of the hosts before the one that raised.
ScanViewsPartial(verdicts, fail) ==
  IF fail = 0
    THEN [ error |-> "None", dashboard |-> verdicts, report |-> verdicts,
           admin |-> [none |-> FALSE, new_samples_processed |-> Len(verdicts)] ]
    ELSE [ error |-> "raised", dashboard |-> SubSeq(verdicts, 1, fail - 1),
           report |-> SubSeq(verdicts, 1, fail - 1),
           admin |-> [none |-> TRUE, new_samples_processed |-> 0] ]

\* What analyze_scan returns once the model has predicted: the three views
\* built from the passes of the loop with error None, or, when pass fail
\* raised, the except clause's error with the views None.
ScanViews(verdicts, fail) ==
  IF fail = 0
    THEN [ error |-> "None", dashboard |-> verdicts, report |-> verdicts,
           admin |-> [none |-> FALSE, new_samples_processed |-> Len(verdicts)] ]
    ELSE NoViews("raised")

\* analyze_scan(xml_path). hosts: the parsed hosts, each with the
\* probabilities the model gives it. fail = 0, or the host whose pass of
\* the loop raises (after the passes before it logged their rows).
AnalyzeScan(hosts, fail) ==
  /\ scorer.pc = "ready"
  /\ Len(ledger) + Len(hosts) + 1 <= MaxLedger
  /\ LET model == scorer.model
         label_encoder == scorer.label_encoder
         predicts == CanPredict(model, Len(SCORER_FEATURES))
         encoded == trained[model.id].encoded
         \* label_encoder.inverse_transform refuses string labels
         decodes == label_encoder = NoModel \/ encoded
         ml_risk(i) == IF label_encoder = NoModel /\ encoded
                         THEN ClassIndex(predict(hosts[i].prob))
                         ELSE predict(hosts[i].prob)
         logged == IF fail = 0 THEN Len(hosts) ELSE fail - 1
         call == [ NoScan EXCEPT !.model = model,
                                 !.label_encoder = label_encoder,
                                 !.promoted = lastPromoted,
                                 !.hosts = hosts ]
         verdicts == [i \in 1..Len(hosts) |-> HostVerdict(hosts[i], ml_risk(i))]
     IN  IF model = NoModel
           THEN /\ scan' = [call EXCEPT !.status = "not_loaded",
                                        !.returned = NoViews("Model not loaded")]
                /\ UNCHANGED << ledger, ledgerFile >>
         ELSE IF ~predicts \/ ~decodes
           THEN /\ scan' = [call EXCEPT !.status = "error",
                                        !.returned = NoViews("raised")]
                /\ UNCHANGED << ledger, ledgerFile >>
         ELSE /\ ledger' = AppendToFile(ledger, LogAll(ledgerFile,
                    [i \in 1..logged |->
                       LedgerRow(clock, calculate_features(hosts[i]),
                                 ml_risk(i), hosts[i].prob)]))
              /\ ledgerFile' = (ledgerFile \/ logged > 0)
              /\ scan' =
                   IF fail = 0
                     THEN [call EXCEPT !.status = "ok",
                                       !.appended = logged,
                                       !.dashboard = verdicts,
                                       !.returned = ScanViews(verdicts, fail)]
                     ELSE [call EXCEPT !.status = "error",
                                       !.appended = logged,
                                       !.returned = ScanViews(verdicts, fail)]
  /\ UNCHANGED << modelDir, trained, clock, datasetExists, ledgerBase,
                  run, tpc, tmodel, scorer, lastPromoted,
                  logger, sec, drift >>

\* ------------------------------------------------------------ scan inputs
MaxPorts == 3      \* open ports of a host
ScanPorts == {22, 25, 80, 445, 10000}

PortLists ==
  { s \in UNION {[1..n -> ScanPorts] : n \in 0..MaxPorts} :
      \A i, j \in DOMAIN s : i # j => s[i] # s[j] }

\* predict_proba rows, in units of 1e-5, in the order of Classes
Probs ==
  { << 100000, 0, 0 >>, << 75006, 24994, 0 >>, << 33334, 33333, 33333 >>,
    << 25004, 74996, 0 >>, << 0, 80004, 19996 >>, << 10000, 60000, 30000 >>,
    << 20000, 20000, 60000 >>, << 0, 0, 100000 >>, << 45000, 10000, 45000 >> }

ScoreHosts ==
  [open_ports : PortLists,
   services : {{"ssh", "http"}, {"ssh", "http", "microsoft-ds"}},
   os : {"linux", "windows"},
   prob : Probs]
ScoreScans == { << h >> : h \in ScoreHosts }

ScenarioHost ==
  [open_ports |-> << 22, 80, 445 >>, services |-> {"ssh", "http", "microsoft-ds"},
   os |-> "windows", prob |-> << 20000, 20000, 60000 >>]
QuietHost ==
  [open_ports |-> << >>, services |-> {}, os |-> "linux",
   prob |-> << 0, 100000, 0 >>]
LifecycleScans == { << ScenarioHost, QuietHost >> }

\* ------------------------------------------------------------------- Next
\* run_engine.main waits for retrain_pipeline.py to end (subprocess.run), so
\* the engine has one retraining process at a time.
Pipeline == {1}

RetrainStep(r) ==
  \/ Start(r)
  \/ LoadCurrentModel(r)
  \/ PrepareTrainEvaluate(r)
  \/ SaveVersionedBegin(r)
  \/ SaveVersionedEnd(r)
  \/ DumpLatestBegin(r)
  \/ DumpLatestEnd(r)
  \/ Crash(r)

Next ==
  \/ Tick
  \/ GenerateDataset
  \/ TrainModelDumpModelBegin
  \/ TrainModelDumpModelEnd
  \/ TrainModelDumpEncoderBegin
  \/ TrainModelDumpEncoderEnd
  \/ \E r \in Pipeline : RetrainStep(r)
  \/ \E r \in Pipeline : Restart(r)
  \/ ScorerLoadModel
  \/ ScorerLoadEncoder
  \/ ScorerExit
  \/ \E hosts \in LifecycleScans, fail \in 0..2 :
       fail <= Len(hosts) /\ AnalyzeScan(hosts, fail)

Spec == Init /\ [][Next]_vars

\* The retraining script alone, run again and again.
RetrainNext ==
  \/ Tick
  \/ \E r \in Pipeline : RetrainStep(r)
  \/ \E r \in Pipeline : Restart(r)

SpecRetrain == RetrainInit /\ [][RetrainNext]_vars

\* retrain_pipeline.py takes no lock: started by hand, by a scheduler or by
\* two engines, every process of Runs runs it once, in any interleaving.
ConcurrentNext ==
  \/ Tick
  \/ \E r \in Runs : RetrainStep(r)

SpecConcurrent == Init /\ [][ConcurrentNext]_vars

\* The scoring engine alone: train_model.py has run and the serving process
\* has imported predict_risk (with XGBoost or RandomForest as the better
\* model, the import before or after label_encoder.pkl was written); every
\* behaviour is one scan of one host.
ScoreInit ==
  /\ \E xgboost_best \in BOOLEAN, with_encoder \in BOOLEAN :
       /\ trained = << [ src |-> "train_model", features |-> TRAIN_FEATURES,
                         encoded |-> xgboost_best ] >>
       /\ modelDir = [f \in AllFiles |->
            IF f = LATEST_FILE THEN Classifier(1)
            ELSE IF f = ENCODER_FILE THEN Encoder(1) ELSE Absent]
       /\ scorer = [ pc |-> "ready", model |-> Classifier(1),
                     MODEL_FILE |-> LATEST_FILE,
                     label_encoder |-> IF with_encoder THEN Encoder(1) ELSE NoModel ]
  /\ clock = 1
  /\ datasetExists = TRUE
  /\ ledgerBase = 0
  /\ ledger = << >>
  /\ run = [r \in Runs |-> IdleRun]
  /\ tpc = "idle"
  /\ tmodel = 0
  /\ scan = NoScan
  /\ lastPromoted = NoModel
  /\ ledgerFile = (ledgerBase > 0)
  /\ logger = [p \in Loggers |-> IdleLogger]
  /\ sec = << >>
  /\ drift = NoDrift

ScoreNext ==
  \E hosts \in ScoreScans : scan = NoScan /\ AnalyzeScan(hosts, 0)

SpecScore == ScoreInit /\ [][ScoreNext]_vars


\* ------------------------------------------------------- drift_detection
DRIFT_THRESHOLD == 20              \* percent
MIN_NEW_SAMPLES_FOR_DRIFT == 50

MONITORED_FEATURES == << "open_ports_count", "avg_cvss", "service_count" >>

\* The statistics of a column: mean, median and std in hundredths.
Stats(mean, median, std) == [mean |-> mean, median |-> median, std |-> std]

BaselineStats == Stats(10000, 10000, 10000)

\* Statistics of the ledger's column that equal the baseline's, and ones
\* whose aggregate drift is just at and just over the threshold.
RecentStats ==
  { BaselineStats, Stats(12000, 12000, 12000), Stats(12000, 12000, 12003) }

\* What the two populations of a feature come to: their statistics and the
\* p-value of the KS test in units of 1e-4, on both sides of 0.05. The
\* p-value is 1 exactly when the two samples have the same distribution
\* function, and their statistics are then equal.
Measures ==
  [ {MONITORED_FEATURES[k] : k \in DOMAIN MONITORED_FEATURES} ->
      { m \in [ hist_stats : {BaselineStats}, new_stats : RecentStats,
                p_value : {499, 500, 10000} ] :
          m.p_value = 10000 <=> m.new_stats = m.hist_stats } ]

\* abs(a - b) / (abs(a) + 1e-10) * 100, in hundredths of a percent.
RelativeDiff(a, b) ==
  LET d == IF a >= b THEN a - b ELSE b - a
      m == IF a >= 0 THEN a ELSE 0 - a
  IN  (d * 10000) \div m

\* A drift percentage that counts the baseline's spread as drift.
calculate_drift_percentage_spread(hist_stats, new_stats) ==
  ( RelativeDiff(hist_stats.mean, new_stats.mean)
    + RelativeDiff(hist_stats.median, new_stats.median)
    + RelativeDiff(hist_stats.std, 0) ) \div 3

\* calculate_drift_percentage: the mean of the relative differences of
\* mean, median and std, in hundredths of a percent.
calculate_drift_percentage(hist_stats, new_stats) ==
  ( RelativeDiff(hist_stats.mean, new_stats.mean)
    + RelativeDiff(hist_stats.median, new_stats.median)
    + RelativeDiff(hist_stats.std, new_stats.std) ) \div 3

\* load_datasets: nothing when either file is missing, else the two frames;
\* of the ledger's frame, the number of rows.
load_datasets ==
  IF ~datasetExists \/ ~LedgerExists
    THEN [loaded |-> FALSE, new_df |-> 0]
    ELSE [loaded |-> TRUE, new_df |-> read_csv(TRUE).rows]

\* calculate_distribution_stats of a column of the ledger: None when the
\* column has no value. Every row the scorer logs has all its features.
calculate_distribution_stats(rows) ==
  IF rows = 0 THEN [none |-> TRUE, count |-> 0]
  ELSE [none |-> FALSE, count |-> rows]

\* perform_statistical_test: is_different of a p-value.
perform_statistical_test(p_value) == p_value < 500

\* A status that leaves the small-sample protection out.
FeatureStatusUnprotected(new_len, drift_percent, is_different) ==
  IF drift_percent > DRIFT_THRESHOLD * 100 /\ is_different THEN "DRIFT"
  ELSE "STABLE"

\* detect_drift: the status of a feature that has statistics.
FeatureStatus(new_len, drift_percent, is_different) ==
  IF new_len < MIN_NEW_SAMPLES_FOR_DRIFT THEN "INSUFFICIENT_DATA"
  ELSE IF drift_percent > DRIFT_THRESHOLD * 100 /\ is_different THEN "DRIFT"
  ELSE "STABLE"

\* detect_drift: the loop over the monitored features from feature k on. A
\* feature without statistics is passed over (continue); the others append
\* their status to drift_summary and a DRIFT status sets drift_detected.
RECURSIVE DriftLoop(_, _, _, _)
DriftLoop(k, new_len, measures, acc) ==
  IF k > Len(MONITORED_FEATURES) THEN acc
  ELSE LET feature == MONITORED_FEATURES[k]
           new_stats == calculate_distribution_stats(new_len)
           drift_percent == calculate_drift_percentage(measures[feature].hist_stats,
                                                       measures[feature].new_stats)
           is_different == perform_statistical_test(measures[feature].p_value)
           status == FeatureStatus(new_len, drift_percent, is_different)
       IN  IF new_stats.none
             THEN DriftLoop(k + 1, new_len, measures, acc)
             ELSE DriftLoop(k + 1, new_len, measures,
                    [ drift_detected |-> acc.drift_detected \/ status = "DRIFT",
                      drift_summary |-> Append(acc.drift_summary,
                        [ feature |-> feature,
                          hist_stats |-> measures[feature].hist_stats,
                          new_stats |-> measures[feature].new_stats,
                          drift |-> drift_percent,
                          p_value |-> measures[feature].p_value,
                          status |-> status ]) ])

\* detect_drift(): returns False when the datasets do not load, else the
\* drift_detected of the loop.
detect_drift(measures) ==
  LET datasets == load_datasets
      looped == DriftLoop(1, datasets.new_df, measures,
                          [drift_detected |-> FALSE, drift_summary |-> << >>])
  IN  IF ~datasets.loaded
        THEN [ status |-> "not_loaded", new_samples |-> 0,
               drift_summary |-> << >>, drift_detected |-> FALSE ]
        ELSE [ status |-> "done", new_samples |-> datasets.new_df,
               drift_summary |-> looped.drift_summary,
               drift_detected |-> looped.drift_detected ]

\* drift_detection.py run once: it reads the two files and writes its log.
DriftCheck(measures) ==
  /\ drift' = detect_drift(measures)
  /\ UNCHANGED << modelDir, trained, clock, datasetExists, ledgerBase, ledger,
                  run, tpc, tmodel, scorer, scan, lastPromoted,
                  ledgerFile, logger, sec >>

DetectDrift == \E measures \in Measures : DriftCheck(measures)

\* The ledgers a drift check can find: none, one with the header and no row,
\* and ones around the minimum. One scanned host is logged at a time.
DriftLedgerSizes == {0, MIN_NEW_SAMPLES_FOR_DRIFT - 1, MIN_NEW_SAMPLES_FOR_DRIFT}

DriftInit ==
  /\ trained = << [ src |-> "train_model", features |-> TRAIN_FEATURES,
                    encoded |-> FALSE ] >>
  /\ modelDir = [f \in AllFiles |->
       IF f = LATEST_FILE THEN Classifier(1)
       ELSE IF f = ENCODER_FILE THEN Encoder(1) ELSE Absent]
  /\ scorer = [ pc |-> "ready", model |-> Classifier(1),
                MODEL_FILE |-> LATEST_FILE, label_encoder |-> NoModel ]
  /\ clock = 1
  /\ datasetExists \in BOOLEAN
  /\ ledgerBase \in DriftLedgerSizes
  /\ \E cleared \in BOOLEAN :
       /\ cleared => ledgerBase = 0
       /\ ledger = IF cleared THEN << HeaderRow >> ELSE << >>
       /\ ledgerFile = (cleared \/ ledgerBase > 0)
  /\ run = [r \in Runs |-> IdleRun]
  /\ tpc = "idle"
  /\ tmodel = 0
  /\ scan = NoScan
  /\ lastPromoted = NoModel
  /\ logger = [p \in Loggers |-> IdleLogger]
  /\ sec = << >>
  /\ drift = NoDrift

DriftNext ==
  \/ DetectDrift
  \/ \E host \in {ScenarioHost, QuietHost} : AnalyzeScan(<< host >>, 0)

SpecDrift == DriftInit /\ [][DriftNext]_vars

\* ------------------------------------- scoring, drift checks and retraining
\* The three programs that open the ledger, run one after the other in any
\* order on one clock second, after a training or not.
LedgerMeasures ==
  { [f \in {MONITORED_FEATURES[k] : k \in DOMAIN MONITORED_FEATURES} |->
       [hist_stats |-> BaselineStats, new_stats |-> n, p_value |-> 499]] :
    n \in {Stats(12000, 12000, 12000), Stats(12000, 12000, 12003)} }

LedgerNext ==
  \/ GenerateDataset
  \/ TrainModelDumpModelBegin
  \/ TrainModelDumpModelEnd
  \/ TrainModelDumpEncoderBegin
  \/ TrainModelDumpEncoderEnd
  \/ \E r \in Pipeline : RetrainStep(r)
  \/ ScorerLoadModel
  \/ ScorerLoadEncoder
  \/ \E host \in {ScenarioHost, QuietHost}, fail \in 0..1 :
       AnalyzeScan(<< host >>, fail)
  \/ \E measures \in LedgerMeasures : DriftCheck(measures)

SpecLedger == Init /\ [][LedgerNext]_vars

\* ------------------------------------------------- the readers of the ledger
\* A ledger of well-formed rows, and the same ledger with a malformed line
\* after them, read by a drift check and by a retraining run, with
\* dataset.csv generated before or after.
ReaderLedgerSizes == {MIN_NEW_SAMPLES_FOR_DRIFT, MIN_NEW_SAMPLES}

ReadersInit == InitWith(ReaderLedgerSizes, {<< >>, << MalformedRow >>})

ReadersNext ==
  \/ GenerateDataset
  \/ \E measures \in LedgerMeasures : DriftCheck(measures)
  \/ \E r \in Pipeline : RetrainStep(r)

SpecReaders == ReadersInit /\ [][ReadersNext]_vars

\* ------------------------------------------------------------ run_engine.py
\* main() after its scan and its scoring step: it runs drift_detection.py,
\* decides, and runs retrain_pipeline.py or not.

\* drift_detection.py ended by an exception nothing caught (of an import, of
\* the open or the print of log_drift_event), or subprocess.run could not
\* start it.
DriftFailure(outcome) ==
  [ status |-> outcome, new_samples |-> 0,
    drift_summary |-> << >>, drift_detected |-> FALSE ]

\* The exit code run_script returns: drift_detection.py exits with
\* 1 if drift_detected else 0, the interpreter exits with 1 after an
\* uncaught exception, and run_script answers -1 when the process did not
\* start.
returncode(d) ==
  IF d.status = "not_started" THEN -1
  ELSE IF d.status = "raised" THEN 1
  ELSE IF d.drift_detected THEN 1 ELSE 0

\* count_samples_in_log(): the lines of the file less the header's.
count_samples_in_log ==
  IF ~LedgerExists THEN 0
  ELSE IF LedgerLines > 0 THEN LedgerLines - 1 ELSE 0

\* check_retrain_eligibility(drift_detected, sample_count)
check_retrain_eligibility(drift_detected, count) ==
  IF ~drift_detected THEN FALSE
  ELSE IF count < 200 THEN FALSE
  ELSE TRUE

\* Step 2 of main(): the drift check, once.
EngineDriftDetection ==
  /\ drift.status = "none"
  /\ \/ DetectDrift
     \/ /\ \E outcome \in {"raised", "not_started"} :
             drift' = DriftFailure(outcome)
        /\ UNCHANGED << modelDir, trained, clock, datasetExists, ledgerBase,
                        ledger, run, tpc, tmodel, scorer, scan, lastPromoted,
                        ledgerFile, logger, sec >>

\* The decision of main(): retrain_pipeline.py is run, and makes its first
\* step, or it is not run.
EngineDecision(r) ==
  /\ drift.status # "none"
  /\ run[r] = IdleRun
  /\ LET exit_code == returncode(drift)
         drift_detected == exit_code = 1
         should_retrain ==
           check_retrain_eligibility(drift_detected, count_samples_in_log)
     IN  run' = [run EXCEPT ![r] =
           IF should_retrain
             THEN [ IdleRun EXCEPT
                      !.pc = IF check_retraining_eligibility
                               THEN "load" ELSE "not_eligible",
                      !.active_before = ActiveContent(modelDir),
                      !.trigger = "engine" ]
             ELSE [ IdleRun EXCEPT !.trigger = "declined" ]]
  /\ UNCHANGED << modelDir, trained, clock, datasetExists, ledgerBase, ledger,
                  tpc, tmodel, scorer, scan, lastPromoted,
                  ledgerFile, logger, sec, drift >>

\* The ledgers main() can find after its scoring step.
EngineLedgerSizes == {MIN_NEW_SAMPLES_FOR_DRIFT, MIN_NEW_SAMPLES - 1, MIN_NEW_SAMPLES}

EngineInit == InitWith(EngineLedgerSizes, {<< >>})

EngineNext ==
  \/ GenerateDataset
  \/ EngineDriftDetection
  \/ \E r \in Pipeline : EngineDecision(r)
  \/ \E r \in Pipeline : RetrainStep(r)

SpecEngine == EngineInit /\ [][EngineNext]_vars

\* ------------------------------------------- concurrent scoring processes
\* _log_scan_results in processes that score at the same time (the API
\* serves requests while run_engine.py runs predict_risk.py): the test for
\* the file, the open and the write at close are separate steps, and nothing
\* keeps another process from running between them. The header and the row
\* leave the buffer in one write when the file is closed. A call starts
\* while the ledger has fewer than MaxLedger lines.
LogCheck(p) ==
  /\ logger[p].pc = "idle"
  /\ Len(ledger) < MaxLedger
  /\ \E host \in {ScenarioHost, QuietHost} :
       logger' = [logger EXCEPT ![p] =
                    [ pc |-> "checked",
                      file_exists |-> LedgerExists,
                      row |-> LedgerRow(clock, calculate_features(host),
                                        predict(host.prob), host.prob) ]]
  /\ UNCHANGED << modelDir, trained, clock, datasetExists, ledgerBase, ledger,
                  run, tpc, tmodel, scorer, scan, lastPromoted,
                  ledgerFile, sec, drift >>

\* open(LOG_FILE, "a") creates the file when it is missing.
LogOpen(p) ==
  /\ logger[p].pc = "checked"
  /\ logger' = [logger EXCEPT ![p].pc = "open"]
  /\ ledgerFile' = TRUE
  /\ UNCHANGED << modelDir, trained, clock, datasetExists, ledgerBase, ledger,
                  run, tpc, tmodel, scorer, scan, lastPromoted,
                  sec, drift >>

\* The end of the with block: the buffer is written and the file closed.
LogClose(p) ==
  /\ logger[p].pc = "open"
  /\ ledger' = AppendToFile(ledger, LogLines(logger[p].file_exists, logger[p].row))
  /\ logger' = [logger EXCEPT ![p] = IdleLogger]
  /\ UNCHANGED << modelDir, trained, clock, datasetExists, ledgerBase,
                  run, tpc, tmodel, scorer, scan, lastPromoted,
                  ledgerFile, sec, drift >>

LoggingNext ==
  \/ Tick
  \/ \E p \in Loggers : LogCheck(p)
  \/ \E p \in Loggers : LogOpen(p)
  \/ \E p \in Loggers : LogClose(p)

SpecLogging == ScoreInit /\ [][LoggingNext]_vars

\* ---------------------------------------------- the security score alone
\* calculate_host_security_score called directly. Feature values on both
\* sides of every threshold the function tests; avg_cvss in hundredths.
MaxCount == 3      \* critical or high ports of a host

FeatureDicts ==
  [ open_ports_count : {1, 3, 5, 6, 8, 9},
    avg_cvss : {300, 301, 500, 501, 700, 701, 800, 801},
    os_flag : {0, 1},
    service_count : {2, 4, 6, 7},
    uncommon_ports : {0, 1} ]

SecurityCall(feature_dict, critical, high) ==
  [ feature_dict |-> feature_dict,
    critical_ports_count |-> critical,
    high_ports_count |-> high,
    result |-> calculate_host_security_score(feature_dict, critical, high) ]

\* A first call, on any feature vector and counts.
SecurityScoreCall ==
  /\ sec = << >>
  /\ \E feature_dict \in FeatureDicts, critical \in 0..MaxCount, high \in 0..MaxCount :
       sec' = << SecurityCall(feature_dict, critical, high) >>
  /\ UNCHANGED << modelDir, trained, clock, datasetExists, ledgerBase, ledger,
                  run, tpc, tmodel, scorer, scan, lastPromoted,
                  ledgerFile, logger, drift >>

\* The best and the worst feature vector of FeatureDicts.
ReferenceDicts ==
  { [open_ports_count |-> 1, avg_cvss |-> 300, os_flag |-> 0,
     service_count |-> 2, uncommon_ports |-> 0],
    [open_ports_count |-> 9, avg_cvss |-> 801, os_flag |-> 1,
     service_count |-> 7, uncommon_ports |-> 1] }

\* A second call, with any counts, on the same feature vector or on a
\* reference one; sec keeps the first call before it.
SecurityScoreAgain ==
  /\ Len(sec) = 1
  /\ \E feature_dict \in ReferenceDicts \cup {sec[1].feature_dict},
        critical \in 0..MaxCount, high \in 0..MaxCount :
       sec' = Append(sec, SecurityCall(feature_dict, critical, high))
  /\ UNCHANGED << modelDir, trained, clock, datasetExists, ledgerBase, ledger,
                  run, tpc, tmodel, scorer, scan, lastPromoted,
                  ledgerFile, logger, drift >>

SecurityNext == SecurityScoreCall \/ SecurityScoreAgain

SpecSecurity == Init /\ [][SecurityNext]_vars

\* ================================================================ properties
\* The run has trained and evaluated its challenger and taken its decision.
Decided(r) == run[r].new_model # 0

\* C1: while a run that rejected its challenger (challenger F1 <= active F1)
\* sits at its return, the active model is the one that was active when the
\* run started, and it is not the rejected challenger.
C1_RejectedChallengerNeverActive ==
  \A r \in Runs :
    run[r].pc = "rejected" =>
      /\ run[r].new_f1 <= run[r].old_f1
      /\ ActiveContent(modelDir) = run[r].active_before
      /\ ActiveContent(modelDir) # Classifier(run[r].new_model)

\* C2: a run decides to promote exactly when it loaded no active model (so has
\* no active-model metrics) or the challenger's F1 is strictly greater than the
\* active model's; with challenger F1 <= active F1 it rejects. Only a run that
\* decided to promote replaces rf_model.pkl, and a run that returns from the
\* reject branch decided to reject.
C2_PromoteIffStrictlyGreater ==
  \A r \in Runs :
    Decided(r) =>
      /\ run[r].improvement <=>
           (run[r].current_model = NoModel \/ run[r].new_f1 > run[r].old_f1)
      /\ (run[r].current_model # NoModel /\ run[r].new_f1 <= run[r].old_f1)
           => ~run[r].improvement
      /\ run[r].pc \in {"dump", "dumping", "promoted"} => run[r].improvement
      /\ run[r].pc = "rejected" => ~run[r].improvement
      /\ lastPromoted = Classifier(run[r].new_model) => run[r].improvement

\* C2 witness: a run has rejected a challenger whose F1 ties the active model's.
C2_TieRejected ==
  \E r \in Runs :
    /\ run[r].pc = "rejected"
    /\ run[r].current_model # NoModel
    /\ run[r].new_f1 = run[r].old_f1

\* C3: when a run returns from a promotion, the challenger is stored under a
\* version file other than (and ordered after) the one the previously active
\* model was loaded from, the challenger is the active model, and the file of
\* the previously active model still holds that model.
C3_PromotionKeepsPriorVersion ==
  \A r \in Runs :
    (run[r].pc = "promoted" /\ run[r].model_file # << >>) =>
      /\ run[r].model_path # run[r].model_file
      /\ StrLess(run[r].model_file, run[r].model_path)
      /\ ActiveContent(modelDir) = Classifier(run[r].new_model)
      /\ modelDir[run[r].model_file] = run[r].current_model

\* C4: no artifact is written before the decision, and a run that crashed left
\* either the previously active model active, or the fully promoted challenger
\* (version file and rf_model.pkl both complete); the active file is never a
\* half-written pickle the run produced.
C4_NoPartialPromotion ==
  \A r \in Runs :
    /\ run[r].pc \in {"load", "prepare", "save"}
         => ActiveContent(modelDir) = run[r].active_before
    /\ run[r].pc = "crashed" =>
         \/ ActiveContent(modelDir) = run[r].active_before
         \/ /\ run[r].improvement
            /\ ActiveContent(modelDir) = Classifier(run[r].new_model)
            /\ modelDir[LATEST_FILE] = Classifier(run[r].new_model)

\* The run is between loading the champion and the end of its promotion or
\* backup writes.
InCritical(r) == run[r].pc \in {"prepare", "save", "saving", "dump", "dumping"}

\* C5: at most one retraining run at a time is between loading the champion
\* and finishing the write of its promotion or backup artifact.
C5_SingleWriter == Cardinality({r \in Runs : InCritical(r)}) <= 1

\* The label encoder that belongs to the ModelVersion of a classifier: the one
\* train_model.py fitted with it; a retrained forest has none.
EncoderOf(model) ==
  IF trained[model.id].src = "train_model" THEN Encoder(model.id) ELSE NoModel

C7_FeatureContract ==
  (scan.status # "none" /\ scan.model.kind = "classifier")
    => trained[scan.model.id].features = SCORER_FEATURES

\* C8: a scoring call made after a promotion completed uses the promoted model.
C8_NextCallUsesPromoted ==
  (scan.status # "none" /\ scan.promoted # NoModel)
    => scan.model = scan.promoted

SetMax(S) == CHOOSE x \in S : \A y \in S : y <= x

\* The rank of the port tier of a host: the highest tier the knowledge base
\* gives one of its open ports, ports it does not know counting as Low.
PortTierRank(open_ports) ==
  SetMax({1} \cup { LET info == get_port_info(open_ports[i])
                    IN  IF info.found THEN RISK_RANK(info.risk_level) ELSE 1 :
                    i \in DOMAIN open_ports })

\* C9: for every host of a scan that was scored, the final tier is not below
\* the tier the classifier predicted, and its rank is the higher of the
\* predicted tier's rank and the port tier's rank.
C9_EscalationNeverDecreases ==
  scan.status = "ok" =>
    \A i \in DOMAIN scan.dashboard :
      LET v == scan.dashboard[i]
          host == scan.hosts[i]
          predicted == predict(host.prob)
      IN  /\ RISK_RANK(v.final_risk) >= RISK_RANK(predicted)
          /\ RISK_RANK(v.final_risk)
               = Max(RISK_RANK(predicted), PortTierRank(host.open_ports))

TierOfScore(score) ==
  IF score >= 80 THEN "Low"
  ELSE IF score >= 60 THEN "Medium"
  ELSE IF score >= 40 THEN "High"
  ELSE "Critical"

\* C11: every call of calculate_host_security_score returns a score within
\* 0..100 and the one tier the boundaries 80 / 60 / 40 give that score, which
\* is one of the four tiers.
C11_ScoreRangeAndTier ==
  \A i \in DOMAIN sec :
    /\ sec[i].result.security_score \in 0..100
    /\ sec[i].result.risk_tier \in Tiers
    /\ sec[i].result.risk_tier = TierOfScore(sec[i].result.security_score)

\* C11 witness: a call that scored exactly 60, the lowest Medium score, is
\* followed by a call on the same features that scored under 40, Critical.
C11_BoundaryScored ==
  /\ Len(sec) = 2
  /\ sec[1].feature_dict = sec[2].feature_dict
  /\ sec[1].result.security_score = 60
  /\ sec[1].result.risk_tier = "Medium"
  /\ sec[2].result.security_score < 40
  /\ sec[2].result.risk_tier = "Critical"

\* The number of open ports of a call whose tier is High or Critical.
HighOrCritical(call) == call.critical_ports_count + call.high_ports_count

\* C12 as stated: the 30-point sub-score is a function of the number of
\* High-or-Critical ports: two calls with the same such count return the same
\* sub-score, and of two calls the one with the larger count returns no
\* higher sub-score and, on the same features, no higher security score.
C12_SubScoreOfHighOrCritical ==
  \A i, j \in DOMAIN sec :
    /\ HighOrCritical(sec[i]) = HighOrCritical(sec[j])
         => sec[i].result.critical_score = sec[j].result.critical_score
    /\ HighOrCritical(sec[i]) > HighOrCritical(sec[j])
         => /\ sec[i].result.critical_score <= sec[j].result.critical_score
            /\ sec[i].feature_dict = sec[j].feature_dict
                 => sec[i].result.security_score <= sec[j].result.security_score

\* C12: the 30-point sub-score is a function of the number of Critical ports:
\* two calls with the same number of Critical ports return the same sub-score
\* whatever their features and High ports, and of two calls the one with more
\* Critical ports returns no higher sub-score and, on the same features, no
\* higher security score.
C12_SubScoreOfCritical ==
  \A i, j \in DOMAIN sec :
    /\ sec[i].critical_ports_count = sec[j].critical_ports_count
         => sec[i].result.critical_score = sec[j].result.critical_score
    /\ sec[i].critical_ports_count > sec[j].critical_ports_count
         => /\ sec[i].result.critical_score <= sec[j].result.critical_score
            /\ sec[i].feature_dict = sec[j].feature_dict
                 => sec[i].result.security_score <= sec[j].result.security_score

\* C12 witness: on the same features, a host with one High port and no
\* Critical port keeps the 30 points and a host with one Critical port and
\* no High port keeps 15 and scores 15 lower.
C12_HighPortKeepsPoints ==
  /\ Len(sec) = 2
  /\ sec[1].feature_dict = sec[2].feature_dict
  /\ sec[1].critical_ports_count = 0 /\ sec[1].high_ports_count = 1
  /\ sec[2].critical_ports_count = 1 /\ sec[2].high_ports_count = 0
  /\ sec[1].result.critical_score = 30
  /\ sec[2].result.critical_score = 15
  /\ sec[2].result.security_score = sec[1].result.security_score - 15

\* The categories in the order the recommendations are emitted.
CategoryOrder ==
  << "critical_ports", "open_ports", "avg_cvss", "windows", "service_count",
     "high_ports" >>

\* Whether a category fires on the inputs of a call.
Fires(category, call) ==
  CASE category = "critical_ports" -> call.critical_ports_count > 0
    [] category = "open_ports" -> call.feature_dict.open_ports_count > 5
    [] category = "avg_cvss" -> call.feature_dict.avg_cvss > 700
    [] category = "windows" -> call.feature_dict.os_flag = 1
    [] category = "service_count" -> call.feature_dict.service_count > 6
    [] category = "high_ports" -> call.high_ports_count > 0

\* The recommendation list of a call is made of the categories of the first
\* n entries of CategoryOrder: the fallback alone iff none of them fires,
\* otherwise one entry per fired one, in that order, and no fallback.
ListFollows(call, n) ==
  LET list == call.result.improvements
      fired == {k \in 1..n : Fires(CategoryOrder[k], call)}
      Position(category) == CHOOSE k \in 1..n : CategoryOrder[k] = category
  IN  /\ (list = << Improvement("monitoring", 0) >>) <=> (fired = {})
      /\ fired # {} =>
           /\ Len(list) = Cardinality(fired)
           /\ \A e \in DOMAIN list :
                \E k \in fired : list[e].category = CategoryOrder[k]
           /\ \A e, f \in DOMAIN list :
                e < f => Position(list[e].category) < Position(list[f].category)

\* C13 as stated: the recommendation list is the single monitoring entry iff
\* none of the five categories critical ports, excess open ports, high mean
\* vulnerability score, Windows hardening and service sprawl fires, and
\* otherwise has exactly one entry per fired category of these, in the fixed
\* order, and no fallback.
C13_FiveCategories ==
  \A i \in DOMAIN sec : ListFollows(sec[i], 5)

\* C13: the same with six categories, the sixth being high-risk ports
\* present, emitted last; and two calls on the same inputs return the same
\* list.
C13_SixCategories ==
  /\ \A i \in DOMAIN sec : ListFollows(sec[i], 6)
  /\ \A i, j \in DOMAIN sec :
       ( /\ sec[i].feature_dict = sec[j].feature_dict
         /\ sec[i].critical_ports_count = sec[j].critical_ports_count
         /\ sec[i].high_ports_count = sec[j].high_ports_count )
         => sec[i].result.improvements = sec[j].result.improvements

\* C13 witness: a call on which none of the five categories fires and a High
\* port is open returns the firewall entry alone, and a call on the worst
\* inputs returns all six entries.
C13_FirewallEntryAlone ==
  /\ Len(sec) = 2
  /\ \A k \in 1..5 : ~Fires(CategoryOrder[k], sec[1])
  /\ sec[1].result.improvements = << Improvement("high_ports", sec[1].high_ports_count) >>
  /\ Len(sec[2].result.improvements) = 6

\* C14: a scoring call returns either error None with a dashboard and a
\* report entry for every host of the scan, each the verdict of its host, or
\* an error with dashboard, report and admin None; a call without a loaded
\* model returns the error form and has scored and logged no host.
C14_AllOrNothing ==
  scan.status # "none" =>
    LET r == scan.returned
        whole == /\ r.error = "None"
                 /\ Len(r.dashboard) = Len(scan.hosts)
                 /\ Len(r.report) = Len(scan.hosts)
                 /\ ~r.admin.none
                 /\ r.admin.new_samples_processed = Len(scan.hosts)
                 /\ \A i \in DOMAIN scan.hosts :
                      /\ r.dashboard[i].port_intelligence_risk
                           = calculate_port_based_risk(scan.hosts[i].open_ports)
                      /\ r.dashboard[i].confidence
                           = Round2(SeqMax(scan.hosts[i].prob))
        nothing == /\ r.error # "None"
                   /\ r.dashboard = << >>
                   /\ r.report = << >>
                   /\ r.admin.none
    IN  /\ (whole /\ ~nothing) \/ (nothing /\ ~whole)
        /\ scan.model = NoModel =>
             nothing /\ r.error = "Model not loaded" /\ scan.appended = 0

\* C14 witness: the second of two hosts raised after the first was built and
\* logged, and the call returned the error with no view.
C14_SecondHostRaised ==
  /\ scan.status = "error"
  /\ Len(scan.hosts) = 2
  /\ scan.appended = 1
  /\ scan.returned.error = "raised"
  /\ scan.returned.dashboard = << >>

\* The entries of the last drift check's summary for a feature.
StatusEntries(feature) ==
  {e \in DOMAIN drift.drift_summary : drift.drift_summary[e].feature = feature}

\* The status the policy gives a feature.
PolicyStatus(new_samples, drift_percent, p_value) ==
  IF new_samples < 50 THEN "INSUFFICIENT_DATA"
  ELSE IF drift_percent > 2000 /\ p_value < 500 THEN "DRIFT"
  ELSE "STABLE"

\* C18: after a drift check whose datasets loaded, each monitored feature has
\* the status of the policy: INSUFFICIENT_DATA when the ledger has fewer than
\* 50 samples whatever the drift and the p-value, else DRIFT iff the drift
\* exceeds 20% and p < 0.05, else STABLE.
C18_StatusFollowsPolicy ==
  drift.status = "done" =>
    \A k \in DOMAIN MONITORED_FEATURES :
      \E e \in StatusEntries(MONITORED_FEATURES[k]) :
        LET entry == drift.drift_summary[e]
        IN  entry.status = PolicyStatus(drift.new_samples, entry.drift, entry.p_value)

\* C19: the signal a drift check returns is true iff some feature of its
\* summary has status DRIFT, and it is false when a dataset did not load and
\* when the ledger had fewer than 50 samples.
C19_SignalIffSomeDrift ==
  drift.status # "none" =>
    /\ drift.drift_detected <=>
         \E e \in DOMAIN drift.drift_summary : drift.drift_summary[e].status = "DRIFT"
    /\ drift.status = "not_loaded" => ~drift.drift_detected
    /\ drift.new_samples < 50 => ~drift.drift_detected

\* C19 witness: a check over 50 samples returned true with one feature in
\* DRIFT and another STABLE.
C19_OneFeatureDrifts ==
  /\ drift.status = "done"
  /\ drift.new_samples = 50
  /\ drift.drift_detected
  /\ \E e, f \in DOMAIN drift.drift_summary :
       /\ drift.drift_summary[e].status = "DRIFT"
       /\ drift.drift_summary[f].status = "STABLE"

\* C20: after a drift check whose datasets loaded, each monitored feature has
\* exactly one entry in the summary, with a status of STABLE, DRIFT and
\* INSUFFICIENT_DATA, also when the ledger has no rows.
C20_OneStatusPerFeature ==
  drift.status = "done" =>
    \A k \in DOMAIN MONITORED_FEATURES :
      /\ Cardinality(StatusEntries(MONITORED_FEATURES[k])) = 1
      /\ \A e \in StatusEntries(MONITORED_FEATURES[k]) :
           drift.drift_summary[e].status \in {"STABLE", "DRIFT", "INSUFFICIENT_DATA"}

\* The columns of a ledger entry in the fixed order: the timestamp, the nine
\* named features, the predicted tier, the risk score, the confidence.
EntryColumns ==
  << "timestamp" >> \o SCORER_FEATURES
    \o << "predicted_label", "risk_score", "confidence" >>

\* What the column of a ledger entry holds for a host scored at time now
\* with verdict v: the risk score is the confidence as a percentage to two
\* decimals, the confidence the greatest class probability to three.
EntryValue(column, now, host, v) ==
  CASE column = "timestamp" -> now
    [] column = "predicted_label" -> v.ml_risk
    [] column = "risk_score" -> v.confidence
    [] column = "confidence" -> Round3(SeqMax(host.prob))
    [] column = "open_ports_count" -> Len(host.open_ports)
    [] column = "service_count" -> Cardinality(host.services)
    [] OTHER -> calculate_features(host)[column]

\* C16: a scoring call that returns without error over n hosts has appended
\* to the ledger exactly n entries (after the header, when it created the
\* file), the i-th holding in the fixed column order the values of the i-th
\* host, and has returned n verdicts.
C16_OneEntryPerHost ==
  [][ (scan'.status = "ok" /\ (scan' # scan \/ ledger' # ledger)) =>
        LET n == Len(scan'.hosts)
            added == SubSeq(ledger', Len(ledger) + 1, Len(ledger'))
            entries == SelectSeq(added, LAMBDA line : line.kind = "row")
        IN  /\ SubSeq(ledger', 1, Len(ledger)) = ledger
            /\ Len(entries) = n
            /\ added \in {entries, << HeaderRow >> \o entries}
            /\ Len(scan'.returned.dashboard) = n
            /\ \A i \in 1..n :
                 /\ Len(entries[i].cells) = Len(EntryColumns)
                 /\ \A k \in DOMAIN EntryColumns :
                      entries[i].cells[k]
                        = EntryValue(EntryColumns[k], clock, scan'.hosts[i],
                                     scan'.returned.dashboard[i]) ]_vars

\* C16 witness: a call over two different hosts returned two verdicts and
\* the last two lines of the ledger are their entries, in host order.
C16_TwoHostsLogged ==
  /\ scan.status = "ok"
  /\ Len(scan.hosts) = 2
  /\ scan.hosts[1] # scan.hosts[2]
  /\ Len(scan.returned.dashboard) = 2
  /\ scan.appended = 2
  /\ Len(ledger) >= 2
  /\ ledger[Len(ledger) - 1].kind = "row"
  /\ ledger[Len(ledger) - 1].cells[2] = Len(scan.hosts[1].open_ports)
  /\ ledger[Len(ledger)].cells[2] = Len(scan.hosts[2].open_ports)

\* C15: every step leaves the lines the ledger had as a prefix of the lines
\* it has, and keeps the file once it exists; a step of a drift check
\* changes neither the ledger nor a file of the model directory, and a step
\* of a retraining run does not change the ledger.
C15_AppendOnly ==
  [][ /\ ledgerBase' = ledgerBase
      /\ Len(ledger') >= Len(ledger)
      /\ SubSeq(ledger', 1, Len(ledger)) = ledger
      /\ ledgerFile => ledgerFile'
      /\ drift' # drift =>
           /\ ledger' = ledger /\ ledgerFile' = ledgerFile
           /\ modelDir' = modelDir
      /\ run' # run => ledger' = ledger /\ ledgerFile' = ledgerFile ]_vars

\* C15 witness: the ledger holds the entries of two scoring calls, a drift
\* check has read it since, and a retraining run has started and ended.
C15_ThreeProgramsRan ==
  /\ Len(ledger) >= 2
  /\ \A i \in DOMAIN ledger : ledger[i].kind = "row"
  /\ drift.status = "done"
  /\ drift.new_samples = sample_count
  /\ \E r \in Pipeline : run[r].pc \in Terminal

\* C17: whatever the interleaving of concurrent scoring calls, a ledger that
\* did not exist before them has the header as its first line and only
\* entry rows after it.
C17_HeaderOnceAndFirst ==
  (ledgerBase = 0 /\ ledger # << >>) =>
    /\ ledger[1].kind = "header"
    /\ \A i \in 2..Len(ledger) : ledger[i].kind = "row"

\* The populations of a summary entry are identical: the samples have the
\* same distribution function, and so the same statistics.
Identical(entry) ==
  entry.p_value = 10000 /\ entry.new_stats = entry.hist_stats

\* C21 as stated: after a drift check, every monitored feature whose
\* baseline and recent populations are identical has an aggregate drift of
\* 0% and the status STABLE.
C21_IdenticalIsStable ==
  drift.status = "done" =>
    \A e \in DOMAIN drift.drift_summary :
      Identical(drift.drift_summary[e]) =>
        /\ drift.drift_summary[e].drift = 0
        /\ drift.drift_summary[e].status = "STABLE"

\* C21: every monitored feature whose baseline and recent populations are
\* identical has an aggregate drift of 0%, and the status STABLE when the
\* ledger has at least 50 samples and INSUFFICIENT_DATA when it has fewer.
C21_IdenticalIsStableFromMinimum ==
  drift.status = "done" =>
    \A e \in DOMAIN drift.drift_summary :
      Identical(drift.drift_summary[e]) =>
        /\ drift.drift_summary[e].drift = 0
        /\ drift.drift_summary[e].status =
             IF drift.new_samples >= 50 THEN "STABLE" ELSE "INSUFFICIENT_DATA"

\* C21 witness: a check over 50 samples in which all three features have
\* identical populations reported 0% and STABLE for each.
C21_AllIdenticalStable ==
  /\ drift.status = "done"
  /\ drift.new_samples = 50
  /\ Len(drift.drift_summary) = 3
  /\ \A e \in DOMAIN drift.drift_summary :
       /\ Identical(drift.drift_summary[e])
       /\ drift.drift_summary[e].drift = 0
       /\ drift.drift_summary[e].status = "STABLE"

\* C22: a retraining run goes on from the eligibility check iff the ledger
\* exists and has at least 200 samples; otherwise that step ends it not
\* eligible, with no model loaded, no model trained and the model directory
\* as it was, and the run takes no step after it.
C22_EligibilityGate ==
  [][ \A r \in Runs :
        /\ (run[r].pc = "idle" /\ run'[r].pc # "idle") =>
             /\ run'[r].pc \in {"load", "not_eligible"}
             /\ run'[r].pc = "load" <=> (ledgerFile /\ sample_count >= 200)
        /\ (run[r].pc = "idle" /\ run'[r].pc = "not_eligible") =>
             /\ run'[r].current_model = NoModel
             /\ run'[r].new_model = 0
             /\ modelDir' = modelDir
             /\ trained' = trained
        /\ run[r].pc = "not_eligible" =>
             run'[r] \in {run[r], IdleRun} ]_vars

\* C22 witness: a run over a ledger of 150 samples has ended not eligible
\* with the model directory empty.
C22_Run150NotEligible ==
  /\ sample_count = 150
  /\ run[1].pc = "not_eligible"
  /\ ModelFiles(modelDir) = {}
  /\ trained = << >>

\* The rows of the ledger a reader that skips malformed lines loads.
WellFormedRows == sample_count - MalformedLines

\* C23: every reader of the ledger treats a ledger with a malformed line as
\* the same ledger without it: a drift check loads the well-formed rows, and
\* a retraining run goes past eligibility exactly when the well-formed rows
\* are at least 200.
C23_MalformedLineSkipped ==
  [][ /\ (drift' # drift /\ drift'.status = "done") =>
           drift'.new_samples = WellFormedRows
      /\ \A r \in Runs :
           (run[r].pc = "idle" /\ run'[r].pc # "idle") =>
             (run'[r].pc = "load" <=>
                (ledgerFile /\ WellFormedRows >= MIN_NEW_SAMPLES)) ]_vars

\* C24: a retraining run never ends by raising: it ends with a returned
\* status, and a run that failed to assemble its data ends aborted with the
\* active model as it was when the run started.
C24_EndsWithStatus ==
  \A r \in Pipeline :
    /\ run[r].pc # "raised"
    /\ run[r].pc = "aborted" =>
         /\ run[r].new_model = 0
         /\ ActiveContent(modelDir) = run[r].active_before

\* C26: a run that found no active model, was eligible and trained a
\* challenger ends promoted (it returns True) with the challenger active.
C26_FirstPromotionReturnsTrue ==
  \A r \in Pipeline :
    ( /\ run[r].pc \in Terminal \ {"crashed"}
      /\ run[r].active_before = NoModel
      /\ run[r].current_model = NoModel
      /\ run[r].new_model # 0 ) =>
        /\ run[r].pc = "promoted"
        /\ ActiveContent(modelDir) = Classifier(run[r].new_model)

\* C25: the data assembly of a run builds one corpus that has every row of
\* the baseline and every row of the ledger, each with a label.
C25_EveryRowLabelled ==
  [][ \A r \in Pipeline :
        (run[r].pc = "prepare" /\ run'[r].pc \in {"save", "raised", "aborted"}) =>
          /\ run'[r].corpus.rows =
               (IF datasetExists THEN NUM_ROWS ELSE 0)
                 + (IF ledgerFile THEN WellFormedRows ELSE 0)
          /\ run'[r].corpus.y # "none"
          /\ run'[r].corpus.labelled = run'[r].corpus.rows ]_vars

C28_LaunchNeedsDriftAndSamples ==
  [][ \A r \in Pipeline :
        (run[r].trigger = "none" /\ run'[r].trigger = "engine") =>
          /\ drift.status = "done"
          /\ \E i \in DOMAIN drift.drift_summary :
               drift.drift_summary[i].status = "DRIFT"
          /\ sample_count >= MIN_NEW_SAMPLES ]_vars

\* The cell of a ledger entry under a column of the header.
EntryCell(entry, column) ==
  entry.cells[CHOOSE k \in DOMAIN LOG_COLUMNS : LOG_COLUMNS[k] = column]

\* C29: the ledger entry of every scored host has the tier and the risk
\* score of the verdict returned for that host, escalated or not.
C29_EntryMatchesVerdict ==
  [][ (scan'.status = "ok" /\ ledger' # ledger) =>
        LET added == SubSeq(ledger', Len(ledger) + 1, Len(ledger'))
            entries == SelectSeq(added, LAMBDA line : line.kind = "row")
        IN  \A i \in DOMAIN entries :
              LET v == scan'.returned.dashboard[i]
              IN  /\ EntryCell(entries[i], "predicted_label") = v.final_risk
                  /\ EntryCell(entries[i], "risk_score") = v.risk_score ]_vars

\* C30: a scoring call that ends with an error, for want of a model or by a
\* failure at any host of the scan, has appended nothing to the ledger.
C30_ErrorAppendsNothing ==
  [][ (scan'.status \in {"error", "not_loaded"} /\ scan'.returned.error # "None") =>
        /\ ledger' = ledger
        /\ ledgerFile' = ledgerFile ]_vars

====
